---------------------------- MODULE Spec2Model ----------------------------
(***************************************************************************)
(* The expression evaluator of mathy-notes (src/src/expr.rs): the lexer,   *)
(* the numeric reader, the precedence-climbing parser and the tree         *)
(* evaluator, as pure operators, and evaluate(text) as a state machine     *)
(* that applies them one stage at a time.  A second state machine runs the *)
(* lexer and the parser one loop iteration and one call at a time.         *)
(*                                                                         *)
(* A character is a one-character string; NUL stands for '\0'.  A text is  *)
(* a sequence of characters.                                               *)
(***************************************************************************)
EXTENDS Integers, Sequences, FiniteSets, TLC

VARIABLES text, pc, lexed, tree, result, lexing, parsing

vars == <<text, pc, lexed, tree, result, lexing, parsing>>

(***************************************************************************)
(* Characters and their classes (char::is_alphabetic, is_numeric,          *)
(* is_alphanumeric, is_whitespace), over the characters the model draws.   *)
(***************************************************************************)
NUL == "NUL"

Letters ==
    {"a", "b", "c", "d", "e", "f", "g", "h", "i", "j", "k", "l", "m",
     "n", "o", "p", "q", "r", "s", "t", "u", "v", "w", "x", "y", "z"}

Digits == {"0", "1", "2", "3", "4", "5", "6", "7", "8", "9"}

is_alphabetic(x) == x \in Letters

\* A character that is numeric and no decimal digit: the vulgar fraction
\* one half.
Half == "U+00BD"

NonDigitNumerics == {Half}

is_numeric(x) == x \in Digits \cup NonDigitNumerics

is_alphanumeric(x) == is_alphabetic(x) \/ is_numeric(x)

is_whitespace(x) == x \in {" ", "\t", "\n"}

(***************************************************************************)
(* Result<T>: Ok(v) or Err(kind), kind one of Error's two variants.  A     *)
(* panic (unreachable!()) is a third outcome, kept apart from both.        *)
(***************************************************************************)
Unrecognized == "Unrecognized"

Invalid == "Invalid"

Ok(v) == [ok |-> TRUE, val |-> v]

Err(kind) == [ok |-> FALSE, err |-> kind]

Panic == [ok |-> FALSE, err |-> "panic"]

(***************************************************************************)
(* Lexemes.                                                                *)
(***************************************************************************)
Token(t, ty) == [lx |-> "Token", ty |-> ty, text |-> t]

Group(inner) == [lx |-> "Group", inner |-> inner]

IsToken(l, ty) == l.lx = "Token" /\ l.ty = ty

IsGroup(l) == l.lx = "Group"

\* The text of a token as one string, for the matches on &**text.
RECURSIVE Str(_)
Str(s) == IF s = <<>> THEN "" ELSE Head(s) \o Str(Tail(s))

(***************************************************************************)
(* lex.  The Peekable<I> is the text and the position of the next          *)
(* character; a call returns its result and the position it stopped at.    *)
(***************************************************************************)
\* The inner while-let loops: the first position from p on whose character
\* is not accepted by the token being read (Len(txt) + 1 at end of input).
RECURSIVE IdEnd(_, _)
IdEnd(txt, p) ==
    IF p <= Len(txt) /\ is_alphanumeric(txt[p]) THEN IdEnd(txt, p + 1) ELSE p

RECURSIVE NumEnd(_, _)
NumEnd(txt, p) ==
    IF p <= Len(txt) /\ (is_alphanumeric(txt[p]) \/ txt[p] = ".")
    THEN NumEnd(txt, p + 1)
    ELSE p

\* A call that fails when the text ends before its closing parenthesis.
lex_end_unclosed_err(term, res, p) ==
    IF term = ")" THEN Err(Unrecognized) ELSE Ok([result |-> res, pos |-> p])

\* The loop falls out at the end of the text, whatever the terminator:
\* Ok(result).
lex_end(term, res, p) == Ok([result |-> res, pos |-> p])

\* The outer while-let loop of one call, from position p with `res` pushed
\* so far.  Ok's value is [result, pos].
RECURSIVE LexLoop(_, _, _, _)
LexLoop(txt, p, term, res) ==
    IF p > Len(txt) THEN lex_end(term, res, p)
    ELSE LET x == txt[p] IN
      IF is_alphabetic(x) THEN
          LET q == IdEnd(txt, p + 1) IN
          LexLoop(txt, q, term, Append(res, Token(SubSeq(txt, p, q - 1), "Id")))
      ELSE IF is_numeric(x) \/ x = "." THEN
          LET q == NumEnd(txt, p + 1) IN
          LexLoop(txt, q, term, Append(res, Token(SubSeq(txt, p, q - 1), "Num")))
      ELSE IF x \in {"+", "-", "/", "^"} THEN
          LexLoop(txt, p + 1, term, Append(res, Token(<<x>>, "Sym")))
      ELSE IF x = "*" THEN
          IF p + 1 <= Len(txt) /\ txt[p + 1] = "*"
          THEN LexLoop(txt, p + 2, term, Append(res, Token(<<"*", "*">>, "Sym")))
          ELSE LexLoop(txt, p + 1, term, Append(res, Token(<<"*">>, "Sym")))
      ELSE IF x = "(" THEN
          LET inner == LexLoop(txt, p + 1, ")", <<>>) IN
          IF ~inner.ok THEN inner
          ELSE LexLoop(txt, inner.val.pos, term,
                       Append(res, Group(inner.val.result)))
      ELSE IF x = term THEN Ok([result |-> res, pos |-> p + 1])
      ELSE IF is_whitespace(x) THEN LexLoop(txt, p + 1, term, res)
      ELSE Err(Unrecognized)

lex(txt, p, term) == LexLoop(txt, p, term, <<>>)


(***************************************************************************)
(* f64.  The model tracks a float exactly where IEEE-754 arithmetic is     *)
(* exact: a dyadic rational n / 2^e of magnitude at most MaxExact          *)
(* ("fin", normalised: n odd or e = 0; n = 0 is +0.0), -0.0 ("nzero"),     *)
(* the infinities and NaN.  A literal with fraction digits ("dec": the     *)
(* float parse_num computes for n / 10^s) and the constants e, pi, tau     *)
(* are named floats.  Every other float (a rounded result, a result out of *)
(* the tracked range, a transcendental function's value) is "other": some  *)
(* f64, not tracked further.                                               *)
(***************************************************************************)
MaxExact == 1000000

F(k, n, e) == [k |-> k, n |-> n, e |-> e]

Other == F("other", 0, 0)

NaN == F("nan", 0, 0)

Inf == F("inf", 0, 0)

NegInf == F("ninf", 0, 0)

Zero == F("fin", 0, 0)

NegZero == F("nzero", 0, 0)

One == F("fin", 1, 0)

Abs(n) == IF n < 0 THEN -n ELSE n

RECURSIVE Pow2(_)
Pow2(e) == IF e = 0 THEN 1 ELSE 2 * Pow2(e - 1)

\* 2^e <= MaxExact, decided without computing a power out of range.
RECURSIVE ExpInRange(_, _)
ExpInRange(e, room) ==
    IF e = 0 THEN TRUE ELSE room >= 2 /\ ExpInRange(e - 1, room \div 2)

\* x * y is within the tracked range.
MulInRange(x, y) == x = 0 \/ y = 0 \/ Abs(x) <= MaxExact \div Abs(y)

RECURSIVE Fin(_, _)
Fin(n, e) ==
    IF e > 0 /\ n % 2 = 0 THEN Fin(n \div 2, e - 1)
    ELSE IF Abs(n) <= MaxExact /\ ExpInRange(e, MaxExact) THEN F("fin", n, e)
    ELSE Other

IsFin(v) == v.k = "fin"

IsZero(v) == v = Zero \/ v = NegZero

IsInf(v) == v.k \in {"inf", "ninf"}

\* A float whose value the model tracks (anything but a named or unknown float).
Tracked(v) == v.k \in {"fin", "nzero", "inf", "ninf", "nan"}

SignBit(v) == v.k \in {"nzero", "ninf"} \/ (v.k = "fin" /\ v.n < 0)

SignedZero(neg) == IF neg THEN NegZero ELSE Zero

SignedInf(neg) == IF neg THEN NegInf ELSE Inf

IsInteger(v) == IsFin(v) /\ v.e = 0

IsOddInteger(v) == IsInteger(v) /\ v.n % 2 = 1

f64_neg(a) ==
    IF a.k = "fin" THEN (IF a.n = 0 THEN NegZero ELSE F("fin", -a.n, a.e))
    ELSE IF a.k = "nzero" THEN Zero
    ELSE IF a.k = "inf" THEN NegInf
    ELSE IF a.k = "ninf" THEN Inf
    ELSE IF a.k = "nan" THEN NaN
    ELSE Other

f64_add(a, b) ==
    IF a.k = "nan" \/ b.k = "nan" THEN NaN
    ELSE IF ~Tracked(a) \/ ~Tracked(b) THEN Other
    ELSE IF IsInf(a) /\ IsInf(b) THEN (IF a = b THEN a ELSE NaN)
    ELSE IF IsInf(a) THEN a
    ELSE IF IsInf(b) THEN b
    ELSE IF IsZero(a) /\ IsZero(b) THEN SignedZero(SignBit(a) /\ SignBit(b))
    ELSE IF IsZero(a) THEN b
    ELSE IF IsZero(b) THEN a
    ELSE LET e == IF a.e > b.e THEN a.e ELSE b.e
             sa == Pow2(e - a.e)
             sb == Pow2(e - b.e)
         IN  IF MulInRange(a.n, sa) /\ MulInRange(b.n, sb)
             THEN Fin(a.n * sa + b.n * sb, e)
             ELSE Other

f64_sub(a, b) == f64_add(a, f64_neg(b))

f64_mul(a, b) ==
    IF a.k = "nan" \/ b.k = "nan" THEN NaN
    ELSE IF ~Tracked(a) \/ ~Tracked(b) THEN Other
    ELSE LET neg == SignBit(a) # SignBit(b) IN
         IF (IsInf(a) /\ IsZero(b)) \/ (IsZero(a) /\ IsInf(b)) THEN NaN
         ELSE IF IsInf(a) \/ IsInf(b) THEN SignedInf(neg)
         ELSE IF IsZero(a) \/ IsZero(b) THEN SignedZero(neg)
         ELSE IF MulInRange(a.n, b.n) THEN Fin(a.n * b.n, a.e + b.e)
         ELSE Other

\* The odd part of a positive integer and the power of two taken out of it.
RECURSIVE TwoAdic(_, _)
TwoAdic(n, t) ==
    IF n % 2 = 0 THEN TwoAdic(n \div 2, t + 1) ELSE [odd |-> n, t |-> t]

f64_div(a, b) ==
    IF a.k = "nan" \/ b.k = "nan" THEN NaN
    ELSE IF ~Tracked(a) \/ ~Tracked(b) THEN Other
    ELSE LET neg == SignBit(a) # SignBit(b) IN
         IF (IsInf(a) /\ IsInf(b)) \/ (IsZero(a) /\ IsZero(b)) THEN NaN
         ELSE IF IsInf(a) \/ IsZero(b) THEN SignedInf(neg)
         ELSE IF IsInf(b) \/ IsZero(a) THEN SignedZero(neg)
         ELSE \* (a.n / 2^a.e) / (odd * 2^t / 2^b.e): exact iff odd divides a.n
              LET d == TwoAdic(Abs(b.n), 0)
                  q == Abs(a.n) \div d.odd
                  up == b.e                \* multiplies the quotient by 2^up
                  down == a.e + d.t        \* divides it by 2^down
                  sgn == IF neg THEN -1 ELSE 1
              IN  IF Abs(a.n) % d.odd # 0 THEN Other
                  ELSE IF up >= down
                       THEN (IF ExpInRange(up - down, MaxExact)
                                /\ MulInRange(q, Pow2(up - down))
                             THEN Fin(sgn * q * Pow2(up - down), 0)
                             ELSE Other)
                       ELSE Fin(sgn * q, down - up)

\* acc * a^k by repeated multiplication, given up once out of range.
RECURSIVE PowAcc(_, _, _)
PowAcc(acc, a, k) ==
    IF k = 0 \/ acc = Other THEN acc ELSE PowAcc(f64_mul(acc, a), a, k - 1)

\* f64::powf (C pow).
f64_powf(a, b) ==
    IF IsZero(b) \/ a = One THEN One
    ELSE IF a.k = "nan" \/ b.k = "nan" THEN NaN
    ELSE IF ~Tracked(a) \/ ~Tracked(b) THEN Other
    ELSE IF IsInf(b) THEN
        IF a = F("fin", -1, 0) THEN One
        ELSE IF IsFin(a) /\ a.e = 0 /\ Abs(a.n) > 1
             THEN (IF b = Inf THEN Inf ELSE Zero)
        ELSE IF IsZero(a) THEN (IF b = Inf THEN Zero ELSE Inf)
        ELSE IF IsInf(a) THEN (IF b = Inf THEN Inf ELSE Zero)
        ELSE Other
    ELSE IF IsZero(a) THEN
        IF SignBit(b) THEN SignedInf(SignBit(a) /\ IsOddInteger(b))
        ELSE SignedZero(SignBit(a) /\ IsOddInteger(b))
    ELSE IF IsInf(a) THEN
        IF SignBit(b) THEN SignedZero(SignBit(a) /\ IsOddInteger(b))
        ELSE SignedInf(SignBit(a) /\ IsOddInteger(b))
    ELSE IF ~IsInteger(b) THEN (IF SignBit(a) THEN NaN ELSE Other)
    ELSE IF a = F("fin", -1, 0) THEN (IF b.n % 2 = 1 THEN a ELSE One)
    ELSE IF b.n > 0 THEN PowAcc(One, a, b.n)
    ELSE f64_div(One, PowAcc(One, a, -b.n))

(***************************************************************************)
(* parse_num.  The two for-loops share the iterator `chars`: the first     *)
(* reads up to and including the first '.', the second from there up to    *)
(* and including the next '.'; what follows is never read.                 *)
(***************************************************************************)
DigitVal(c) == CHOOSE d \in 0..9 : ToString(d) = c

\* One for-loop from position p: Ok([n, cnt, pos]) with the digits read as
\* the integer n, their count, and the position after the loop (after the
\* '.' that broke it, or past the end), or Err(Invalid).
RECURSIVE NumLoop(_, _, _, _)
NumLoop(t, p, n, cnt) ==
    IF p > Len(t) THEN Ok([n |-> n, cnt |-> cnt, pos |-> p])
    ELSE IF t[p] \in Digits THEN
        (IF MulInRange(n, 10) /\ 10 * n + DigitVal(t[p]) <= MaxExact
         THEN NumLoop(t, p + 1, 10 * n + DigitVal(t[p]), cnt + 1)
         ELSE NumLoop(t, p + 1, MaxExact + 1, cnt + 1))
    ELSE IF t[p] = "." THEN Ok([n |-> n, cnt |-> cnt, pos |-> p + 1])
    ELSE Err(Invalid)

\* n / 10^s with the trailing zeros of the fraction dropped (they add 0.0).
RECURSIVE Dec(_, _)
Dec(n, s) ==
    IF s > 0 /\ n % 10 = 0 THEN Dec(n \div 10, s - 1) ELSE F("dec", n, s)

RECURSIVE Pow10(_)
Pow10(s) == IF s = 0 THEN 1 ELSE 10 * Pow10(s - 1)

\* int_part + float_part as a float of the model.
NumValue(ip, fp, s) ==
    IF ip > MaxExact \/ fp > MaxExact THEN Other
    ELSE IF fp = 0 THEN Fin(ip, 0)
    ELSE IF ~MulInRange(ip, Pow10(s)) THEN Other
    ELSE Dec(ip * Pow10(s) + fp, s)

\* A reader that rejects what follows the second '.'.
parse_num_reject_rest(t) ==
    LET int_loop == NumLoop(t, 1, 0, 0) IN
    IF ~int_loop.ok THEN int_loop
    ELSE LET float_loop == NumLoop(t, int_loop.val.pos, 0, 0) IN
         IF ~float_loop.ok THEN float_loop
         ELSE IF float_loop.val.pos <= Len(t) THEN Err(Invalid)
         ELSE Ok(NumValue(int_loop.val.n, float_loop.val.n, float_loop.val.cnt))

parse_num(t) ==
    LET int_loop == NumLoop(t, 1, 0, 0) IN
    IF ~int_loop.ok THEN int_loop
    ELSE LET float_loop == NumLoop(t, int_loop.val.pos, 0, 0) IN
         IF ~float_loop.ok THEN float_loop
         ELSE Ok(NumValue(int_loop.val.n, float_loop.val.n, float_loop.val.cnt))

(***************************************************************************)
(* Expression, BinOp, UnOp.  A UnOp::Fn closure is named by what it        *)
(* computes, so two identifiers bound to the same closure body give the    *)
(* same operator.                                                          *)
(***************************************************************************)
Num(v) == [e |-> "Num", v |-> v]

BinOp(lhs, op, rhs) == [e |-> "BinOp", op |-> op, lhs |-> lhs, rhs |-> rhs]

UnOp(op, inner) == [e |-> "UnOp", op |-> op, inner |-> inner]

Fn(f) == [u |-> "Fn", f |-> f]

Pos == [u |-> "Pos", f |-> ""]

Neg == [u |-> "Neg", f |-> ""]

\* The closures of parse_atom's table.
f64_fn(f, x) ==
    IF f = "abs" THEN
        (IF x.k = "nzero" THEN Zero
         ELSE IF x.k = "ninf" THEN Inf
         ELSE IF x.k = "fin" THEN F("fin", Abs(x.n), x.e)
         ELSE IF x.k = "inf" \/ x.k = "nan" THEN x
         ELSE Other)
    ELSE IF x.k = "nan" THEN NaN
    ELSE Other

\* A logarithm that rejects zero.
apply_fn_ln_checked(f, x) ==
    IF f = "ln" /\ IsZero(x) THEN Err(Invalid) ELSE Ok(f64_fn(f, x))

\* Every closure is |x| Ok(...).
apply_fn(f, x) == Ok(f64_fn(f, x))

(***************************************************************************)
(* Expression::eval.                                                       *)
(***************************************************************************)
bin_apply(op, l, r) ==
    IF op = "Add" THEN f64_add(l, r)
    ELSE IF op = "Sub" THEN f64_sub(l, r)
    ELSE IF op = "Mul" THEN f64_mul(l, r)
    ELSE IF op = "Div" THEN f64_div(l, r)
    ELSE f64_powf(l, r)

RECURSIVE eval(_)
eval(x) ==
    IF x.e = "BinOp" THEN
        LET l == eval(x.lhs) IN
        IF ~l.ok THEN l
        ELSE LET r == eval(x.rhs) IN
             IF ~r.ok THEN r ELSE Ok(bin_apply(x.op, l.val, r.val))
    ELSE IF x.e = "UnOp" THEN
        LET i == eval(x.inner) IN
        IF ~i.ok THEN i
        ELSE IF x.op = Pos THEN i
        ELSE IF x.op = Neg THEN Ok(f64_neg(i.val))
        ELSE apply_fn(x.op.f, i.val)
    ELSE Ok(x.v)

(***************************************************************************)
(* The parser.  A Peekable iterator over a lexeme slice is the slice `ls`  *)
(* and the position `p` of the next lexeme; a parse function returns       *)
(* Ok([expr, pos]) with the position it left the iterator at, or the       *)
(* error.                                                                  *)
(***************************************************************************)
Unreachable == <<>>

\* bin_bp with ^ and ** given the left-associative pair (7, 8).
bin_bp_left_pow(op) ==
    IF op \in {"+", "-"} THEN <<1, 2>>
    ELSE IF op = " " THEN <<3, 4>>
    ELSE IF op \in {"*", "/"} THEN <<5, 6>>
    ELSE IF op \in {"^", "**"} THEN <<7, 8>>
    ELSE Unreachable

\* A table that knows ^ and has no entry for its alias **.
bin_bp_no_alias(op) ==
    IF op \in {"+", "-"} THEN <<1, 2>>
    ELSE IF op = " " THEN <<3, 4>>
    ELSE IF op \in {"*", "/"} THEN <<5, 6>>
    ELSE IF op = "^" THEN <<8, 7>>
    ELSE Unreachable

\* (l_bp, r_bp) of a symbol's text.
bin_bp(op) ==
    IF op \in {"+", "-"} THEN <<1, 2>>
    ELSE IF op = " " THEN <<3, 4>>
    ELSE IF op \in {"*", "/"} THEN <<5, 6>>
    ELSE IF op \in {"^", "**"} THEN <<8, 7>>
    ELSE Unreachable

\* The match that maps a symbol's text to its BinOp in parse_bp.
bin_op(op) ==
    IF op = "+" THEN "Add"
    ELSE IF op = "-" THEN "Sub"
    ELSE IF op = "*" THEN "Mul"
    ELSE IF op = "/" THEN "Div"
    ELSE IF op \in {"^", "**"} THEN "Pow"
    ELSE "unreachable"

\* The identifier arms of parse_atom that build a function: the closure an
\* identifier is bound to, "" for an identifier bound to none.
func_of(id) ==
    IF id \in {"sin", "cos", "tan", "sec", "csc", "cot"} THEN id
    ELSE IF id \in {"asin", "arcsin"} THEN "asin"
    ELSE IF id \in {"acos", "arccos"} THEN "acos"
    ELSE IF id \in {"atan", "arctan"} THEN "atan"
    ELSE IF id \in {"asec", "arcsec"} THEN "asec"
    ELSE IF id \in {"acsc", "arccsc"} THEN "acsc"
    ELSE IF id \in {"acot", "arccot"} THEN "acot"
    ELSE IF id \in {"loge", "ln"} THEN "ln"
    ELSE IF id \in {"log10", "log"} THEN "log10"
    ELSE IF id \in {"log2", "lb"} THEN "log2"
    ELSE IF id \in {"sqrt", "cbrt", "abs"} THEN id
    ELSE ""

\* The constant arms: core::f64::consts::{E, PI, TAU}.
is_const(id) == id \in {"e", "pi", "tau"}

const_of(id) == F(id, 0, 0)

\* The symbols parse_atom rejects as Invalid.
atom_invalid_mul_div(op) == op \in {"*", "/"}

atom_invalid(op) == op \in {"*", "/", "^"}

\* The minimum binding powers the parser passes down: parse_arg's, the unary
\* arms', the group arm's and parse's.
TopBp == 0

\* A unary sign binding tighter than ^: above ^'s left binding power.
UnaryBpTight == bin_bp("^")[1] + 1

UnaryBp == 7

\* A group parsed at the binding power of the unary arms beside it.
GroupBpOfUnary == UnaryBp

GroupBp == 0

\* An argument parsed like a whole expression.
ArgBpOfTop == TopBp

ArgBp == 4

Parsed(x, p) == Ok([expr |-> x, pos |-> p])

RECURSIVE parse_arg(_, _)
RECURSIVE parse_atom(_, _)
RECURSIVE parse_bp(_, _, _)
RECURSIVE ParseLoop(_, _, _, _)

parse_arg(ls, p) ==
    IF p <= Len(ls) /\ IsGroup(ls[p]) THEN parse_atom(ls, p)
    ELSE parse_bp(ls, p, ArgBp)

\* iter.next() consumes ls[p]: what follows is read from p + 1.
parse_atom(ls, p) ==
    IF p > Len(ls) THEN Err(Unrecognized)
    ELSE LET l == ls[p] IN
      IF IsToken(l, "Num") THEN
          LET n == parse_num(l.text) IN
          IF ~n.ok THEN n ELSE Parsed(Num(n.val), p + 1)
      ELSE IF IsToken(l, "Id") THEN
          LET id == Str(l.text) IN
          IF func_of(id) # "" THEN
              LET a == parse_arg(ls, p + 1) IN
              IF ~a.ok THEN a
              ELSE Parsed(UnOp(Fn(func_of(id)), a.val.expr), a.val.pos)
          ELSE IF is_const(id) THEN Parsed(Num(const_of(id)), p + 1)
          ELSE Err(Unrecognized)
      ELSE IF IsGroup(l) THEN
          LET g == parse_bp(l.inner, 1, GroupBp) IN
          IF ~g.ok THEN g ELSE Parsed(g.val.expr, p + 1)
      ELSE IF IsToken(l, "Sym") /\ Str(l.text) \in {"+", "-"} THEN
          LET i == parse_bp(ls, p + 1, UnaryBp) IN
          IF ~i.ok THEN i
          ELSE Parsed(UnOp(IF Str(l.text) = "+" THEN Pos ELSE Neg, i.val.expr),
                      i.val.pos)
      ELSE IF IsToken(l, "Sym") /\ atom_invalid(Str(l.text)) THEN Err(Invalid)
      ELSE Err(Unrecognized)

\* The loop without the implicit-multiplication arm: a lexeme that is no
\* symbol ends it.
ParseLoopExplicitOnly(ls, p, min_bp, lhs) ==
    IF p > Len(ls) THEN Parsed(lhs, p)
    ELSE IF IsToken(ls[p], "Sym") THEN
        LET op == Str(ls[p].text)
            bp == bin_bp(op)
        IN  IF bp = Unreachable THEN Panic
            ELSE IF bp[1] < min_bp THEN Parsed(lhs, p)
            ELSE LET rhs == parse_bp(ls, p + 1, bp[2]) IN
                 IF ~rhs.ok THEN rhs
                 ELSE IF bin_op(op) = "unreachable" THEN Panic
                 ELSE ParseLoop(ls, rhs.val.pos, min_bp,
                                BinOp(lhs, bin_op(op), rhs.val.expr))
    ELSE Parsed(lhs, p)

\* The loop with the implicit multiplication compared against min_bp like
\* an explicit operator, at the binding powers bin_bp keeps for " ".
ParseLoopImplicitByBp(ls, p, min_bp, lhs) ==
    IF p > Len(ls) THEN Parsed(lhs, p)
    ELSE IF IsToken(ls[p], "Sym") THEN
        LET op == Str(ls[p].text)
            bp == bin_bp(op)
        IN  IF bp = Unreachable THEN Panic
            ELSE IF bp[1] < min_bp THEN Parsed(lhs, p)
            ELSE LET rhs == parse_bp(ls, p + 1, bp[2]) IN
                 IF ~rhs.ok THEN rhs
                 ELSE IF bin_op(op) = "unreachable" THEN Panic
                 ELSE ParseLoop(ls, rhs.val.pos, min_bp,
                                BinOp(lhs, bin_op(op), rhs.val.expr))
    ELSE IF bin_bp(" ")[1] < min_bp THEN Parsed(lhs, p)
    ELSE LET rhs == parse_arg(ls, p) IN
         IF ~rhs.ok THEN rhs
         ELSE ParseLoop(ls, rhs.val.pos, min_bp, BinOp(lhs, "Mul", rhs.val.expr))

\* The loop of parse_bp, with the left-hand side folded so far.
ParseLoop(ls, p, min_bp, lhs) ==
    IF p > Len(ls) THEN Parsed(lhs, p)
    ELSE IF IsToken(ls[p], "Sym") THEN
        LET op == Str(ls[p].text)
            bp == bin_bp(op)
        IN  IF bp = Unreachable THEN Panic
            ELSE IF bp[1] < min_bp THEN Parsed(lhs, p)
            ELSE LET rhs == parse_bp(ls, p + 1, bp[2]) IN
                 IF ~rhs.ok THEN rhs
                 ELSE IF bin_op(op) = "unreachable" THEN Panic
                 ELSE ParseLoop(ls, rhs.val.pos, min_bp,
                                BinOp(lhs, bin_op(op), rhs.val.expr))
    ELSE LET rhs == parse_arg(ls, p) IN
         IF ~rhs.ok THEN rhs
         ELSE ParseLoop(ls, rhs.val.pos, min_bp, BinOp(lhs, "Mul", rhs.val.expr))

parse_bp(ls, p, min_bp) ==
    LET lhs == parse_atom(ls, p) IN
    IF ~lhs.ok THEN lhs ELSE ParseLoop(ls, lhs.val.pos, min_bp, lhs.val.expr)

\* parse, after the lexer: the whole lexed sequence at binding power 0.  What
\* parse_bp leaves in the iterator is dropped with it.
parse_lexed(ls) ==
    LET r == parse_bp(ls, 1, TopBp) IN IF ~r.ok THEN r ELSE Ok(r.val.expr)

\* lex(&mut text.chars().peekable(), '\0')
lex_text(txt) ==
    LET r == lex(txt, 1, NUL) IN IF ~r.ok THEN r ELSE Ok(r.val.result)

parse(txt) ==
    LET l == lex_text(txt) IN IF ~l.ok THEN l ELSE parse_lexed(l.val)

evaluate(txt) ==
    LET x == parse(txt) IN IF ~x.ok THEN x ELSE eval(x.val)

(***************************************************************************)
(* The evaluator compiled into the host application (src/src/main.rs).     *)
(* Its lex, parse_num, bin_bp, parse_arg, parse_bp, parse and eval are     *)
(* line for line those of expr.rs; its parse_atom has a table of its own.  *)
(***************************************************************************)
\* The function arms of main.rs's parse_atom.
main_func_of(id) ==
    IF id \in {"sin", "cos", "tan", "sec", "csc", "cot"} THEN id
    ELSE IF id \in {"asin", "arcsin"} THEN "asin"
    ELSE IF id \in {"acos", "arccos"} THEN "acos"
    ELSE IF id \in {"atan", "arctan"} THEN "atan"
    ELSE IF id \in {"asec", "arcsec"} THEN "asec"
    ELSE IF id \in {"acsc", "arccsc"} THEN "acsc"
    ELSE IF id \in {"acot", "arccot"} THEN "acot"
    ELSE IF id \in {"loge", "ln"} THEN "ln"
    ELSE IF id = "log" THEN "log10"
    ELSE IF id \in {"log2", "lb"} THEN "log2"
    ELSE ""

main_lex(txt, p, term) == lex(txt, p, term)

main_parse_num(t) == parse_num(t)

main_bin_bp(op) == bin_bp(op)

main_eval(x) == eval(x)

RECURSIVE main_parse_arg(_, _)
RECURSIVE main_parse_atom(_, _)
RECURSIVE main_parse_bp(_, _, _)
RECURSIVE main_ParseLoop(_, _, _, _)

main_parse_arg(ls, p) ==
    IF p <= Len(ls) /\ IsGroup(ls[p]) THEN main_parse_atom(ls, p)
    ELSE main_parse_bp(ls, p, 4)

main_parse_atom(ls, p) ==
    IF p > Len(ls) THEN Err(Unrecognized)
    ELSE LET l == ls[p] IN
      IF IsToken(l, "Num") THEN
          LET n == main_parse_num(l.text) IN
          IF ~n.ok THEN n ELSE Parsed(Num(n.val), p + 1)
      ELSE IF IsToken(l, "Id") THEN
          LET id == Str(l.text) IN
          IF main_func_of(id) # "" THEN
              LET a == main_parse_arg(ls, p + 1) IN
              IF ~a.ok THEN a
              ELSE Parsed(UnOp(Fn(main_func_of(id)), a.val.expr), a.val.pos)
          ELSE IF id \in {"e", "pi", "tau"} THEN Parsed(Num(F(id, 0, 0)), p + 1)
          ELSE Err(Unrecognized)
      ELSE IF IsGroup(l) THEN
          LET g == main_parse_bp(l.inner, 1, 0) IN
          IF ~g.ok THEN g ELSE Parsed(g.val.expr, p + 1)
      ELSE IF IsToken(l, "Sym") /\ Str(l.text) \in {"+", "-"} THEN
          LET i == main_parse_bp(ls, p + 1, 7) IN
          IF ~i.ok THEN i
          ELSE Parsed(UnOp(IF Str(l.text) = "+" THEN Pos ELSE Neg, i.val.expr),
                      i.val.pos)
      ELSE IF IsToken(l, "Sym") /\ Str(l.text) \in {"*", "/", "^"} THEN Err(Invalid)
      ELSE Err(Unrecognized)

main_ParseLoop(ls, p, min_bp, lhs) ==
    IF p > Len(ls) THEN Parsed(lhs, p)
    ELSE IF IsToken(ls[p], "Sym") THEN
        LET op == Str(ls[p].text)
            bp == main_bin_bp(op)
        IN  IF bp = Unreachable THEN Panic
            ELSE IF bp[1] < min_bp THEN Parsed(lhs, p)
            ELSE LET rhs == main_parse_bp(ls, p + 1, bp[2]) IN
                 IF ~rhs.ok THEN rhs
                 ELSE IF bin_op(op) = "unreachable" THEN Panic
                 ELSE main_ParseLoop(ls, rhs.val.pos, min_bp,
                                     BinOp(lhs, bin_op(op), rhs.val.expr))
    ELSE LET rhs == main_parse_arg(ls, p) IN
         IF ~rhs.ok THEN rhs
         ELSE main_ParseLoop(ls, rhs.val.pos, min_bp, BinOp(lhs, "Mul", rhs.val.expr))

main_parse_bp(ls, p, min_bp) ==
    LET lhs == main_parse_atom(ls, p) IN
    IF ~lhs.ok THEN lhs ELSE main_ParseLoop(ls, lhs.val.pos, min_bp, lhs.val.expr)

main_parse(txt) ==
    LET l == main_lex(txt, 1, NUL) IN
    IF ~l.ok THEN l
    ELSE LET r == main_parse_bp(l.val.result, 1, 0) IN
         IF ~r.ok THEN r ELSE Ok(r.val.expr)

main_evaluate(txt) ==
    LET x == main_parse(txt) IN IF ~x.ok THEN x ELSE main_eval(x.val)

(***************************************************************************)
(* evaluate(text) as a state machine: parse(text)?.eval(), one stage per   *)
(* step.  A stage that fails ends the call with its error.                 *)
(***************************************************************************)
Pending == Err("pending")

\* The calls of lex in progress as evaluate is entered: the one of parse, at
\* the first character, with nothing pushed.
LexingStart == [pos |-> 1, stack |-> <<[term |-> NUL, res |-> <<>>]>>]

\* No call of the parser in progress.
NotParsing == [mode |-> "idle", min_bp |-> 0, ret |-> <<>>, its |-> <<>>, stack |-> <<>>]

Lex ==
    /\ pc = "lex"
    /\ lexed' = lex_text(text)
    /\ pc' = IF lexed'.ok THEN "parse" ELSE "done"
    /\ result' = IF lexed'.ok THEN result ELSE lexed'
    /\ UNCHANGED <<text, tree, lexing, parsing>>

Parse ==
    /\ pc = "parse"
    /\ tree' = parse_lexed(lexed.val)
    /\ pc' = IF tree'.ok THEN "eval" ELSE "done"
    /\ result' = IF tree'.ok THEN result ELSE tree'
    /\ UNCHANGED <<text, lexed, lexing, parsing>>

Eval ==
    /\ pc = "eval"
    /\ result' = eval(tree.val)
    /\ pc' = "done"
    /\ UNCHANGED <<text, lexed, tree, lexing, parsing>>

Next == Lex \/ Parse \/ Eval

\* The state in which evaluate is called on one of the texts of T.
InitOn(T) ==
    /\ text \in T
    /\ pc = "lex"
    /\ lexed = Pending
    /\ tree = Pending
    /\ result = Pending
    /\ lexing = LexingStart
    /\ parsing = NotParsing

(***************************************************************************)
(* The input texts.  A text is drawn as a concatenation of pieces (short   *)
(* character sequences).                                                   *)
(***************************************************************************)
\* Every concatenation of exactly k pieces of P, and of at most n.
RECURSIVE PiecesOf(_, _)
PiecesOf(P, k) ==
    IF k = 0 THEN {<<>>} ELSE {a \o x : a \in PiecesOf(P, k - 1), x \in P}

RECURSIVE PieceTexts(_, _)
PieceTexts(P, n) ==
    IF n = 0 THEN PiecesOf(P, 0) ELSE PiecesOf(P, n) \cup PieceTexts(P, n - 1)

\* Operand, separator, operand, ...: exactly k operands of O with separators
\* of S between them, and at most n.
RECURSIVE AltSeqs(_, _, _)
AltSeqs(O, S, k) ==
    IF k = 1 THEN O
    ELSE {a \o x \o y : a \in AltSeqs(O, S, k - 1), x \in S, y \in O}

RECURSIVE AltTexts(_, _, _)
AltTexts(O, S, n) ==
    IF n = 1 THEN AltSeqs(O, S, 1) ELSE AltSeqs(O, S, n) \cup AltTexts(O, S, n - 1)

BinSyms == {<<"+">>, <<"-">>, <<"*">>, <<"/">>, <<"^">>, <<"*", "*">>}

Wrap(t) == <<"(">> \o t \o <<")">>

\* Any text of at most MaxPieces pieces: well-formed or not.
MaxPieces == 4

AnyPieces ==
    {<<"2">>, <<"3">>, <<"+">>, <<"-">>, <<"*">>, <<"/">>, <<"^">>, <<"(">>,
     <<")">>, <<" ">>, <<"s", "i", "n">>, <<"f", "o", "o">>}

Init == InitOn(PieceTexts(AnyPieces, MaxPieces))

Spec == Init /\ [][Next]_vars

\* Literals joined by the explicit binary operators.
MaxOperands == 3

ArithOperands == {<<"2">>, <<"3">>, <<"4">>, <<"8">>}

InitArith == InitOn(AltTexts(ArithOperands, BinSyms, MaxOperands))

SpecArith == InitArith /\ [][Next]_vars

\* Literals and groups joined by one operator of each precedence level.  A
\* group holds one literal, two literals and an operator, or a group of its
\* own.
MaxGroupOperands == 2

GroupDigits == {<<"1">>, <<"2">>, <<"3">>}

GroupSyms == {<<"+">>, <<"*">>, <<"^">>}

GroupInner ==
    {d : d \in GroupDigits}
        \cup {a \o s \o b : a \in GroupDigits, s \in {<<"+">>, <<"^">>},
                            b \in GroupDigits}
        \cup {Wrap(<<"2", "+", "3">>) \o <<"*", "4">>, <<"2", "-">> \o Wrap(<<"3">>)}

GroupOperands == {<<"2">>, <<"4">>} \cup {Wrap(t) : t \in GroupInner}

InitGroup == InitOn(AltTexts(GroupOperands, GroupSyms, MaxGroupOperands))

SpecGroup == InitGroup /\ [][Next]_vars

\* Literals, some under unary signs, joined by the binary operators.
SignOperands ==
    {<<"2">>, <<"3">>, <<"-", "2">>, <<"+", "3">>, <<"-", "-", "2">>}

InitSign == InitOn(AltTexts(SignOperands, BinSyms, MaxOperands))

SpecSign == InitSign /\ [][Next]_vars

\* Operands set side by side: with a space, with nothing, or with + or *
\* between them.
JuxtaOperands ==
    {<<"2">>, <<"3">>, Wrap(<<"3", "+", "4">>), Wrap(<<"2">>), <<"p", "i">>,
     <<"s", "i", "n", " ", "2">>}

JuxtaSeps == {<<" ">>, <<>>, <<"+">>, <<"*">>}

InitJuxta == InitOn(AltTexts(JuxtaOperands, JuxtaSeps, MaxOperands))

SpecJuxta == InitJuxta /\ [][Next]_vars

\* Literals joined by the binary operators or by a space.
AbsorbOperands == {<<"2">>, <<"3">>, <<"4">>, <<"6">>, <<"-", "3">>}

AbsorbSeps == {<<"+">>, <<"-">>, <<"*">>, <<"/">>, <<"^">>, <<" ">>}

InitAbsorb == InitOn(AltTexts(AbsorbOperands, AbsorbSeps, MaxOperands))

SpecAbsorb == InitAbsorb /\ [][Next]_vars

\* Function applications, to a group and to what follows.
FuncOperands ==
    {<<"2">>, <<"3">>, <<"1", "0">>, <<"s", "i", "n", " ", "3", "0">>,
     <<"s", "i", "n", " ", "2">>, <<"c", "o", "s">> \o Wrap(<<"2">>)}

FuncSeps == {<<"+">>, <<"-">>, <<"*">>, <<"^">>, <<" ">>}

InitFunc == InitOn(AltTexts(FuncOperands, FuncSeps, MaxOperands))

SpecFunc == InitFunc /\ [][Next]_vars

\* Arithmetic on zeros, functions out of their domain, and operands that
\* fail to lex or to parse.
ValueOperands ==
    {<<"0">>, <<"1">>, <<"-", "2">>, <<"l", "n", " ", "0">>, <<"#">>, <<"*">>}

ValueSeps == {<<"+">>, <<"-">>, <<"*">>, <<"/">>, <<"^">>}

InitValues == InitOn(AltTexts(ValueOperands, ValueSeps, MaxOperands))

SpecValues == InitValues /\ [][Next]_vars

\* Parentheses opened and closed at will, and the lexer's sentinel.
MaxParenPieces == 5

ParenPieces == {<<"2">>, <<"+">>, <<"*">>, <<"(">>, <<")">>, <<NUL>>}

InitParen == InitOn(PieceTexts(ParenPieces, MaxParenPieces))

SpecParen == InitParen /\ [][Next]_vars

\* Numeric tokens, well formed or not, and identifiers.
MaxNumPieces == 5

NumPieces == {<<"1">>, <<"2">>, <<"3">>, <<".">>, <<"x">>, <<"p", "i">>, <<Half>>}

InitNum == InitOn(PieceTexts(NumPieces, MaxNumPieces))

SpecNum == InitNum /\ [][Next]_vars

\* Every identifier of the table of expr.rs's parse_atom and one outside it.
TableIds ==
    {<<"s", "i", "n">>, <<"c", "o", "s">>, <<"t", "a", "n">>,
     <<"s", "e", "c">>, <<"c", "s", "c">>, <<"c", "o", "t">>,
     <<"a", "s", "i", "n">>, <<"a", "r", "c", "s", "i", "n">>,
     <<"a", "c", "o", "s">>, <<"a", "r", "c", "c", "o", "s">>,
     <<"a", "t", "a", "n">>, <<"a", "r", "c", "t", "a", "n">>,
     <<"a", "s", "e", "c">>, <<"a", "r", "c", "s", "e", "c">>,
     <<"a", "c", "s", "c">>, <<"a", "r", "c", "c", "s", "c">>,
     <<"a", "c", "o", "t">>, <<"a", "r", "c", "c", "o", "t">>,
     <<"l", "o", "g", "e">>, <<"l", "n">>, <<"l", "o", "g", "1", "0">>,
     <<"l", "o", "g">>, <<"l", "o", "g", "2">>, <<"l", "b">>,
     <<"s", "q", "r", "t">>, <<"c", "b", "r", "t">>, <<"a", "b", "s">>,
     <<"e">>, <<"p", "i">>, <<"t", "a", "u">>, <<"f", "o", "o">>}

\* What follows the identifier: nothing, a literal, a group, another operand.
TableArgs ==
    {<<>>, <<" ", "2">>, Wrap(<<"2">>), <<"2">>, <<" ", "2", "+", "3">>,
     <<" ", "-", "4">>, <<" ", "e">>}

\* What precedes it: nothing, a literal, an operator, a sign, a function.
TableLeads ==
    {<<>>, <<"2", " ">>, <<"2", "+">>, <<"-">>, <<"s", "i", "n", " ">>, <<"(">>}

InitTable ==
    InitOn({l \o id \o a : l \in TableLeads, id \in TableIds, a \in TableArgs})

SpecTable == InitTable /\ [][Next]_vars

(***************************************************************************)
(* evaluate one loop iteration and one call at a time.  `lexing` is the    *)
(* position of the Peekable over the text and the calls of lex in          *)
(* progress, innermost last, each with its terminator and the lexemes      *)
(* pushed so far.  `parsing` is the parser's call stack: what runs next    *)
(* (mode), the iterators in use, innermost last, and the frames that wait  *)
(* for a callee's result.                                                  *)
(***************************************************************************)
\* text.next() in the whitespace arm, stuck at the character it peeked.
lex_skip_stuck(p) == p

\* text.next() in the whitespace arm.
lex_skip(p) == p + 1

\* result.push(l) in the innermost call.
PushLexeme(stack, l) == [stack EXCEPT ![Len(stack)].res = Append(@, l)]

\* The innermost call returns Ok(result) with the text at position q: to
\* the call that pushes it as a group, or to parse.
LexReturn(q) ==
    LET top == lexing.stack[Len(lexing.stack)]
        callers == SubSeq(lexing.stack, 1, Len(lexing.stack) - 1)
    IN  IF callers = <<>>
        THEN /\ lexing' = [pos |-> q, stack |-> <<>>]
             /\ lexed' = Ok(top.res)
             /\ pc' = "parse"
             /\ parsing' = [mode |-> "bp", min_bp |-> TopBp, ret |-> <<>>,
                            its |-> <<[ls |-> top.res, p |-> 1]>>, stack |-> <<>>]
             /\ UNCHANGED <<text, tree, result>>
        ELSE /\ lexing' = [pos |-> q, stack |-> PushLexeme(callers, Group(top.res))]
             /\ UNCHANGED <<text, pc, lexed, tree, result, parsing>>

\* Err(Error::Unrecognized)? through every call in progress.
LexFail ==
    /\ lexing' = [lexing EXCEPT !.stack = <<>>]
    /\ lexed' = Err(Unrecognized)
    /\ result' = Err(Unrecognized)
    /\ pc' = "done"
    /\ UNCHANGED <<text, tree, parsing>>

LexPush(q, l) ==
    /\ lexing' = [pos |-> q, stack |-> PushLexeme(lexing.stack, l)]
    /\ UNCHANGED <<text, pc, lexed, tree, result, parsing>>

\* One iteration of the while-let loop of the innermost call: peek gave x.
lex_iteration ==
    /\ pc = "lex"
    /\ lexing.stack # <<>>
    /\ lexing.pos <= Len(text)
    /\ LET p == lexing.pos
           x == text[p]
           term == lexing.stack[Len(lexing.stack)].term
       IN  IF is_alphabetic(x) THEN
               LET q == IdEnd(text, p + 1) IN LexPush(q, Token(SubSeq(text, p, q - 1), "Id"))
           ELSE IF is_numeric(x) \/ x = "." THEN
               LET q == NumEnd(text, p + 1) IN LexPush(q, Token(SubSeq(text, p, q - 1), "Num"))
           ELSE IF x \in {"+", "-", "/", "^"} THEN LexPush(p + 1, Token(<<x>>, "Sym"))
           ELSE IF x = "*" THEN
               IF p + 1 <= Len(text) /\ text[p + 1] = "*"
               THEN LexPush(p + 2, Token(<<"*", "*">>, "Sym"))
               ELSE LexPush(p + 1, Token(<<"*">>, "Sym"))
           ELSE IF x = "(" THEN
               /\ lexing' = [pos |-> p + 1,
                             stack |-> Append(lexing.stack, [term |-> ")", res |-> <<>>])]
               /\ UNCHANGED <<text, pc, lexed, tree, result, parsing>>
           ELSE IF x = term THEN LexReturn(p + 1)
           ELSE IF is_whitespace(x) THEN
               /\ lexing' = [lexing EXCEPT !.pos = lex_skip(p)]
               /\ UNCHANGED <<text, pc, lexed, tree, result, parsing>>
           ELSE LexFail

\* peek gave None: the loop of the innermost call is left and the call
\* returns.
lex_loop_exit ==
    /\ pc = "lex"
    /\ lexing.stack # <<>>
    /\ lexing.pos > Len(text)
    /\ LexReturn(lexing.pos)

\* A frame of the parser that waits for a callee: k says for what ("lhs":
\* parse_bp for its first atom; "bin", "imp": parse_bp for the right operand
\* of op or of an implicit multiplication, in a loop iteration that began
\* with the iterator at `at`; "fn", "un", "group": parse_atom for the
\* argument of a function, the operand of a sign, the inside of a group),
\* and k = "loop" is parse_bp between two iterations.
Frame(k, min_bp, lhs, op, at) ==
    [k |-> k, min_bp |-> min_bp, lhs |-> lhs, op |-> op, at |-> at]

\* The iterator in use and the innermost frame.
It == parsing.its[Len(parsing.its)]

Top == parsing.stack[Len(parsing.stack)]

\* iter.next() on the iterator in use.
Advance(its) == [its EXCEPT ![Len(its)].p = @ + 1]

Callers == SubSeq(parsing.stack, 1, Len(parsing.stack) - 1)

\* An Err (or a panic) leaves every call in progress.
ParseFail(e) ==
    /\ tree' = e
    /\ result' = e
    /\ pc' = "done"
    /\ parsing' = NotParsing
    /\ UNCHANGED <<text, lexed, lexing>>

ParseGo(next) ==
    /\ parsing' = next
    /\ UNCHANGED <<text, pc, lexed, tree, result, lexing>>

\* parse_bp is entered: it calls parse_atom for lhs.
parse_bp_call ==
    /\ pc = "parse"
    /\ parsing.mode = "bp"
    /\ ParseGo([parsing EXCEPT !.mode = "atom",
                               !.stack = Append(@, Frame("lhs", parsing.min_bp, <<>>, "", It.p))])

\* parse_arg: parse_atom on a group, parse_bp(iter, 4) otherwise; its result
\* is the callee's.
parse_arg_call ==
    /\ pc = "parse"
    /\ parsing.mode = "arg"
    /\ IF It.p <= Len(It.ls) /\ IsGroup(It.ls[It.p])
       THEN ParseGo([parsing EXCEPT !.mode = "atom"])
       ELSE ParseGo([parsing EXCEPT !.mode = "bp", !.min_bp = ArgBp])

\* parse_atom up to its first call or its return.
parse_atom_step ==
    /\ pc = "parse"
    /\ parsing.mode = "atom"
    /\ IF It.p > Len(It.ls) THEN ParseFail(Err(Unrecognized))
       ELSE LET l == It.ls[It.p]
                its1 == Advance(parsing.its)
            IN
         IF IsToken(l, "Num") THEN
             LET n == parse_num(l.text) IN
             IF ~n.ok THEN ParseFail(n)
             ELSE ParseGo([parsing EXCEPT !.mode = "ret", !.ret = Num(n.val), !.its = its1])
         ELSE IF IsToken(l, "Id") THEN
             LET id == Str(l.text) IN
             IF func_of(id) # "" THEN
                 ParseGo([parsing EXCEPT !.mode = "arg", !.its = its1,
                              !.stack = Append(@, Frame("fn", 0, <<>>, func_of(id), It.p))])
             ELSE IF is_const(id) THEN
                 ParseGo([parsing EXCEPT !.mode = "ret", !.ret = Num(const_of(id)),
                                         !.its = its1])
             ELSE ParseFail(Err(Unrecognized))
         ELSE IF IsGroup(l) THEN
             ParseGo([parsing EXCEPT !.mode = "bp", !.min_bp = GroupBp,
                          !.its = Append(its1, [ls |-> l.inner, p |-> 1]),
                          !.stack = Append(@, Frame("group", 0, <<>>, "", It.p))])
         ELSE IF Str(l.text) \in {"+", "-"} THEN
             ParseGo([parsing EXCEPT !.mode = "bp", !.min_bp = UnaryBp, !.its = its1,
                          !.stack = Append(@, Frame("un", 0, <<>>, Str(l.text), It.p))])
         ELSE IF atom_invalid(Str(l.text)) THEN ParseFail(Err(Invalid))
         ELSE ParseFail(Err(Unrecognized))

\* One pass through the loop of parse_bp, up to its break or its call.
parse_bp_iteration ==
    /\ pc = "parse"
    /\ parsing.mode = "loop"
    /\ LET leave == ParseGo([parsing EXCEPT !.mode = "ret", !.ret = Top.lhs,
                                            !.stack = Callers])
       IN
       IF It.p > Len(It.ls) THEN leave
       ELSE IF IsToken(It.ls[It.p], "Sym") THEN
           LET op == Str(It.ls[It.p].text)
               bp == bin_bp(op)
           IN  IF bp = Unreachable THEN ParseFail(Panic)
               ELSE IF bp[1] < Top.min_bp THEN leave
               ELSE ParseGo([parsing EXCEPT
                        !.mode = "bp", !.min_bp = bp[2], !.its = Advance(@),
                        !.stack = Append(Callers,
                                         Frame("bin", Top.min_bp, Top.lhs, op, It.p))])
       ELSE ParseGo([parsing EXCEPT
                !.mode = "arg",
                !.stack = Append(Callers, Frame("imp", Top.min_bp, Top.lhs, "", It.p))])

\* A call returns Ok(ret) to the frame that waits for it, or to parse.
parse_return ==
    /\ pc = "parse"
    /\ parsing.mode = "ret"
    /\ LET v == parsing.ret
           loop(lhs) == ParseGo([parsing EXCEPT
                            !.mode = "loop",
                            !.stack = Append(Callers, Frame("loop", Top.min_bp, lhs, "", It.p))])
           back(x) == ParseGo([parsing EXCEPT !.ret = x, !.stack = Callers])
       IN
       IF parsing.stack = <<>> THEN
           /\ tree' = Ok(v)
           /\ pc' = "eval"
           /\ parsing' = NotParsing
           /\ UNCHANGED <<text, lexed, result, lexing>>
       ELSE IF Top.k = "lhs" THEN loop(v)
       ELSE IF Top.k = "bin" THEN
           (IF bin_op(Top.op) = "unreachable" THEN ParseFail(Panic)
            ELSE loop(BinOp(Top.lhs, bin_op(Top.op), v)))
       ELSE IF Top.k = "imp" THEN loop(BinOp(Top.lhs, "Mul", v))
       ELSE IF Top.k = "fn" THEN back(UnOp(Fn(Top.op), v))
       ELSE IF Top.k = "un" THEN back(UnOp(IF Top.op = "+" THEN Pos ELSE Neg, v))
       ELSE ParseGo([parsing EXCEPT
                !.its = SubSeq(@, 1, Len(@) - 1), !.stack = Callers])

StepNext ==
    \/ lex_iteration
    \/ lex_loop_exit
    \/ parse_bp_call
    \/ parse_arg_call
    \/ parse_atom_step
    \/ parse_bp_iteration
    \/ parse_return
    \/ Eval

\* Texts that nest, fail and juxtapose, run step by step.  The code runs to
\* its return without waiting for anything: a step that can be taken is
\* taken.
MaxStepPieces == 4

StepPieces ==
    {<<"2">>, <<"+">>, <<"-">>, <<"/">>, <<"(">>, <<")">>, <<" ">>, <<"s", "i", "n">>}

InitSteps == InitOn(PieceTexts(StepPieces, MaxStepPieces))

SpecSteps == InitSteps /\ [][StepNext]_vars /\ WF_vars(StepNext)

(***************************************************************************)
(* The grouping the grammar prescribes, stated without binding powers: the *)
(* tree of a lexeme sequence is found by choosing its root.                *)
(*   - A symbol is binary when the lexeme before it ends an operand.       *)
(*   - + and - bind loosest, then * and /, then a unary sign, then ^ / **. *)
(*     + - and * / chains group to the left, ^ / ** chains to the right.   *)
(*   - A group is one operand, grouped on its own.  A function followed by *)
(*     a group applies to that group; an operand followed by a group is    *)
(*     multiplied by it, and the product is one operand.                   *)
(*   - Otherwise a function, and an operand followed by a lexeme that is   *)
(*     no symbol, reach to the right over everything up to the next binary *)
(*     + or -: the function applies to all of it, the operand is           *)
(*     multiplied by all of it.                                            *)
(* RefTree is defined on the sequences the grammar accepts.                *)
(***************************************************************************)
TreeItem(t) == [lx |-> "Tree", tree |-> t]

IsSym(l) == l.lx = "Token" /\ l.ty = "Sym"

IsFnId(l) == l.lx = "Token" /\ l.ty = "Id" /\ func_of(Str(l.text)) # ""

EndsOperand(l) ==
    \/ l.lx \in {"Group", "Tree"}
    \/ l.lx = "Token" /\ l.ty = "Num"
    \/ l.lx = "Token" /\ l.ty = "Id" /\ is_const(Str(l.text))

IsBinaryAt(m, i) == i > 1 /\ IsSym(m[i]) /\ EndsOperand(m[i - 1])

Level(op) ==
    IF op \in {"+", "-"} THEN 1 ELSE IF op \in {"*", "/"} THEN 2 ELSE 3

OpName(op) ==
    IF op = "+" THEN "Add"
    ELSE IF op = "-" THEN "Sub"
    ELSE IF op = "*" THEN "Mul"
    ELSE IF op = "/" THEN "Div"
    ELSE "Pow"

BinaryAt(m, lvl) ==
    {i \in 1..Len(m) : IsBinaryAt(m, i) /\ Level(Str(m[i].text)) = lvl}

\* Where something reaches to the right: a function that no group follows,
\* or a lexeme that is no symbol right after an operand.
OpensAt(m) ==
    {i \in 1..Len(m) :
        \/ IsFnId(m[i])
        \/ i > 1 /\ EndsOperand(m[i - 1]) /\ ~IsSym(m[i])}

MaxOf(S) == CHOOSE i \in S : \A j \in S : j <= i

MinOf(S) == CHOOSE i \in S : \A j \in S : i <= j

Front(m, i) == SubSeq(m, 1, i - 1)

Back(m, i) == SubSeq(m, i + 1, Len(m))

RECURSIVE RefTree(_)
RECURSIVE RefSeq(_)
RECURSIVE RefMerge(_, _)
RECURSIVE RefLeaf(_)

RefLeaf(l) ==
    IF l.lx = "Tree" THEN l.tree
    ELSE IF l.lx = "Group" THEN RefTree(l.inner)
    ELSE IF l.ty = "Num" THEN Num(parse_num(l.text).val)
    ELSE Num(const_of(Str(l.text)))

\* Groups joined to what they follow, left to right.
RefMerge(done, rest) ==
    IF rest = <<>> THEN done
    ELSE LET l == Head(rest)
             n == Len(done)
         IN  IF IsGroup(l) /\ n > 0 /\ EndsOperand(done[n])
             THEN RefMerge(
                    Append(Front(done, n),
                           TreeItem(BinOp(RefLeaf(done[n]), "Mul", RefLeaf(l)))),
                    Tail(rest))
             ELSE IF IsGroup(l) /\ n > 0 /\ IsFnId(done[n])
             THEN RefMerge(
                    Append(Front(done, n),
                           TreeItem(UnOp(Fn(func_of(Str(done[n].text))),
                                         RefLeaf(l)))),
                    Tail(rest))
             ELSE RefMerge(Append(done, l), Tail(rest))

RefSplit(m, i) ==
    BinOp(RefSeq(Front(m, i)), OpName(Str(m[i].text)), RefSeq(Back(m, i)))

RefSeq(m) ==
    IF BinaryAt(m, 1) # {} THEN RefSplit(m, MaxOf(BinaryAt(m, 1)))
    ELSE IF OpensAt(m) # {} THEN
        LET i == MinOf(OpensAt(m)) IN
        IF i > 1 /\ EndsOperand(m[i - 1])
        THEN RefSeq(Append(Front(m, i - 1),
                           TreeItem(BinOp(RefLeaf(m[i - 1]), "Mul",
                                          RefSeq(SubSeq(m, i, Len(m)))))))
        ELSE RefSeq(Append(Front(m, i),
                           TreeItem(UnOp(Fn(func_of(Str(m[i].text))),
                                         RefSeq(Back(m, i))))))
    ELSE IF BinaryAt(m, 2) # {} THEN RefSplit(m, MaxOf(BinaryAt(m, 2)))
    ELSE IF IsSym(m[1]) THEN
        UnOp(IF Str(m[1].text) = "+" THEN Pos ELSE Neg, RefSeq(Tail(m)))
    ELSE IF BinaryAt(m, 3) # {} THEN RefSplit(m, MinOf(BinaryAt(m, 3)))
    ELSE RefLeaf(m[1])

RefTree(ls) == RefSeq(RefMerge(<<>>, ls))

(***************************************************************************)
(* The claims.                                                             *)
(***************************************************************************)
Lit(n) == Num(F("fin", n, 0))

Value(n) == Ok(F("fin", n, 0))

Parsed2(ls) == parse_lexed(ls).val

\* s is t or a subtree of t.
RECURSIVE HasSubtree(_, _)
HasSubtree(t, s) ==
    \/ t = s
    \/ t.e = "BinOp" /\ (HasSubtree(t.lhs, s) \/ HasSubtree(t.rhs, s))
    \/ t.e = "UnOp" /\ HasSubtree(t.inner, s)

\* C1: an input of numeric literals joined by the explicit binary operators
\* + - * / ^ ** always parses, and its tree is the one the precedence levels
\* and associativities prescribe: * / tighter than + -, ^ ** tighter than
\* * /, + - and * / chains grouped to the left, ^ ** chains to the right;
\* 2+3*4 is 2+(3*4) = 14, 8-3-2 is (8-3)-2 = 3, 2^3^2 is 2^(3^2) = 512.
C1_ExplicitOperatorsGroupByTable ==
    pc = "done" =>
        /\ tree.ok
        /\ tree.val = RefTree(lexed.val)
        /\ text = <<"2", "+", "3", "*", "4">> =>
              /\ tree.val = BinOp(Lit(2), "Add", BinOp(Lit(3), "Mul", Lit(4)))
              /\ result = Value(14)
        /\ text = <<"8", "-", "3", "-", "2">> =>
              /\ tree.val = BinOp(BinOp(Lit(8), "Sub", Lit(3)), "Sub", Lit(2))
              /\ result = Value(3)
        /\ text = <<"2", "^", "3", "^", "2">> =>
              /\ tree.val = BinOp(Lit(2), "Pow", BinOp(Lit(3), "Pow", Lit(2)))
              /\ result = Value(512)

C1_Witness ==
    /\ pc = "done"
    /\ text = <<"2", "*", "*", "3", "^", "2">>
    /\ result = Value(512)

\* C2: a parenthesized group is one operand of the expression around it,
\* grouped on its own, whichever operator it stands next to: the tree of the
\* text is the prescribed one with each group as an operand, the tree of a
\* group parsed alone is a subtree of it; (2+3)*4 is 20 and 2^(1+2) is 8.
C2_GroupIsOneOperand ==
    pc = "done" =>
        /\ tree.ok
        /\ tree.val = RefTree(lexed.val)
        /\ \A i \in 1..Len(lexed.val) :
              IsGroup(lexed.val[i]) =>
                  /\ parse_lexed(lexed.val[i].inner).ok
                  /\ HasSubtree(tree.val, Parsed2(lexed.val[i].inner))
        /\ text = <<"(", "2", "+", "3", ")", "*", "4">> => result = Value(20)
        /\ text = <<"2", "^", "(", "1", "+", "2", ")">> => result = Value(8)

C2_Witness ==
    /\ pc = "done"
    /\ text = <<"2", "^", "(", "1", "+", "2", ")">>
    /\ tree.val = BinOp(Lit(2), "Pow", BinOp(Lit(1), "Add", Lit(2)))
    /\ result = Value(8)

\* C3: a unary + or - binds looser than ^ / ** and tighter than * / + -:
\* the tree of literals under signs joined by the binary operators is the
\* prescribed one; -2^2 is -(2^2) = -4, -2*3 is (-2)*3, -2+3 is (-2)+3.
C3_UnarySignBetweenMulAndPow ==
    pc = "done" =>
        /\ tree.ok
        /\ tree.val = RefTree(lexed.val)
        /\ text = <<"-", "2", "^", "2">> =>
              /\ tree.val = UnOp(Neg, BinOp(Lit(2), "Pow", Lit(2)))
              /\ result = Value(-4)
        /\ text = <<"-", "2", "*", "3">> =>
              tree.val = BinOp(UnOp(Neg, Lit(2)), "Mul", Lit(3))
        /\ text = <<"-", "2", "+", "3">> =>
              tree.val = BinOp(UnOp(Neg, Lit(2)), "Add", Lit(3))

C3_Witness ==
    /\ pc = "done"
    /\ text = <<"-", "2", "^", "2">>
    /\ result = Value(-4)

\* The characters of a lexeme sequence, groups in their parentheses.
RECURSIVE Unlex(_)
Unlex(ls) ==
    IF ls = <<>> THEN <<>>
    ELSE (IF IsGroup(Head(ls)) THEN Wrap(Unlex(Head(ls).inner))
          ELSE Head(ls).text) \o Unlex(Tail(ls))

StripSpace(t) == SelectSeq(t, LAMBDA c : ~is_whitespace(c))

\* The binary operators of a tree, left to right.
RECURSIVE InOps(_)
InOps(t) ==
    IF t.e = "BinOp" THEN InOps(t.lhs) \o <<t.op>> \o InOps(t.rhs)
    ELSE IF t.e = "UnOp" THEN InOps(t.inner)
    ELSE <<>>

\* What stands between the operands of a lexeme sequence, left to right:
\* each binary symbol, and a multiplication wherever a lexeme that is no
\* symbol follows an operand directly.
RECURSIVE Between(_, _)
Between(ls, i) ==
    IF i > Len(ls) THEN <<>>
    ELSE (IF i > 1 /\ EndsOperand(ls[i - 1]) /\ ~IsSym(ls[i]) THEN <<"Mul">>
          ELSE <<>>)
         \o (IF IsBinaryAt(ls, i) THEN <<OpName(Str(ls[i].text))>>
             ELSE IF IsGroup(ls[i]) THEN Between(ls[i].inner, 1)
             ELSE <<>>)
         \o Between(ls, i + 1)

\* C4: whitespace produces no lexeme (the lexemes spell the text without its
\* whitespace), and wherever an operand is directly followed by a number, an
\* identifier or a group, the tree has a multiplication between the two: its
\* binary operators, left to right, are the explicit ones with a Mul at each
\* such place; 2 3 is 6, 2(3+4) is 14, (2)(3) is 6.
C4_AdjacentOperandsMultiply ==
    /\ (pc # "lex" /\ lexed.ok) => Unlex(lexed.val) = StripSpace(text)
    /\ (pc = "done" /\ tree.ok) => InOps(tree.val) = Between(lexed.val, 1)
    /\ pc = "done" =>
        /\ text = <<"2", " ", "3">> => result = Value(6)
        /\ text = <<"2", "(", "3", "+", "4", ")">> => result = Value(14)
        /\ text = <<"(", "2", ")", "(", "2", ")">> => result = Value(4)
        /\ text = <<"(", "2", ")", " ", "3">> => result = Value(6)

C4_Witness ==
    /\ pc = "done"
    /\ text = <<"2", "(", "3", "+", "4", ")">>
    /\ tree.val = BinOp(Lit(2), "Mul", BinOp(Lit(3), "Add", Lit(4)))
    /\ result = Value(14)

\* The next binary + or - after position i, Len(ls) + 1 when there is none.
NextAdditive(ls, i) ==
    MinOf({j \in (i + 1)..Len(ls) : IsBinaryAt(ls, j) /\ Level(Str(ls[j].text)) = 1}
              \cup {Len(ls) + 1})

\* C5: a function followed by a group applies to exactly that group; a
\* function followed by anything else applies to everything up to the next
\* binary + or -, explicit * / ^ and implicit multiplications included:
\* cos(2)*3 is (cos 2)*3, cos(2)^2 is (cos 2)^2, sin 30+10 is (sin 30)+10,
\* sin 2*3 is sin(2*3).
C5_FunctionArgument ==
    pc = "done" =>
        /\ tree.ok
        /\ tree.val = RefTree(lexed.val)
        /\ \A i \in 1..Len(lexed.val) :
              IsFnId(lexed.val[i]) =>
                  LET ls == lexed.val
                      f == Fn(func_of(Str(ls[i].text)))
                      arg == IF IsGroup(ls[i + 1]) THEN <<ls[i + 1]>>
                             ELSE SubSeq(ls, i + 1, NextAdditive(ls, i) - 1)
                  IN  /\ parse_lexed(arg).ok
                      /\ HasSubtree(tree.val, UnOp(f, Parsed2(arg)))
        /\ text = <<"c", "o", "s", "(", "2", ")", "*", "3">> =>
              tree.val = BinOp(UnOp(Fn("cos"), Lit(2)), "Mul", Lit(3))
        /\ text = <<"c", "o", "s", "(", "2", ")", "^", "2">> =>
              tree.val = BinOp(UnOp(Fn("cos"), Lit(2)), "Pow", Lit(2))
        /\ text = <<"s", "i", "n", " ", "3", "0", "+", "1", "0">> =>
              tree.val = BinOp(UnOp(Fn("sin"), Lit(30)), "Add", Lit(10))
        /\ text = <<"s", "i", "n", " ", "2", "*", "3">> =>
              tree.val = UnOp(Fn("sin"), BinOp(Lit(2), "Mul", Lit(3)))
        /\ text = <<"s", "i", "n", " ", "2", " ", "3">> =>
              tree.val = UnOp(Fn("sin"), BinOp(Lit(2), "Mul", Lit(3)))

C5_Witness ==
    /\ pc = "done"
    /\ text = <<"s", "i", "n", " ", "3", "0", "+", "1", "0">>
    /\ tree.val = BinOp(UnOp(Fn("sin"), Lit(30)), "Add", Lit(10))

\* What the parser meets where it needs an atom, reading the lexemes left
\* to right: need is TRUE when an atom is due at p.  Ok when every atom is
\* found, Err(kind) by the first place where none is, Err("other") when that
\* place holds something else (a number that does not read, a symbol **).
RECURSIVE AtomScan(_, _, _)
AtomScan(ls, p, need) ==
    IF p > Len(ls) THEN (IF need THEN Err(Unrecognized) ELSE Ok("atoms"))
    ELSE LET l == ls[p] IN
        IF IsSym(l) THEN
            IF ~need \/ Str(l.text) \in {"+", "-"} THEN AtomScan(ls, p + 1, TRUE)
            ELSE IF Str(l.text) \in {"*", "/", "^"} THEN Err(Invalid)
            ELSE Err("other")
        ELSE IF IsGroup(l) THEN
            LET inner == AtomScan(l.inner, 1, TRUE) IN
            IF ~inner.ok THEN inner ELSE AtomScan(ls, p + 1, FALSE)
        ELSE IF l.ty = "Num" THEN
            IF parse_num(l.text).ok THEN AtomScan(ls, p + 1, FALSE) ELSE Err("other")
        ELSE IF IsFnId(l) THEN AtomScan(ls, p + 1, TRUE)
        ELSE IF is_const(Str(l.text)) THEN AtomScan(ls, p + 1, FALSE)
        ELSE Err(Unrecognized)

\* Every lexeme sequence of ls: itself and the inner ones of its groups.
RECURSIVE LexemeSeqs(_)
LexemeSeqs(ls) ==
    {ls} \cup UNION {LexemeSeqs(ls[i].inner) : i \in {j \in 1..Len(ls) : IsGroup(ls[j])}}

\* C6: where the parser needs an atom, what it finds decides the error: a
\* symbol * / or ^ gives Err(Invalid), an identifier outside the table gives
\* Err(Unrecognized) whatever follows, the end of the lexemes gives
\* Err(Unrecognized); and that error is the outcome of evaluate.  *3 and 2+/3
\* are Invalid; foo(2), the empty text, (), 2+ and sin are Unrecognized.
C6_AtomPositionErrors ==
    /\ (pc # "lex" /\ lexed.ok) =>
          \A ls \in LexemeSeqs(lexed.val) : \A p \in 1..(Len(ls) + 1) :
              /\ p > Len(ls) => parse_atom(ls, p) = Err(Unrecognized)
              /\ (p <= Len(ls) /\ IsSym(ls[p]) /\ Str(ls[p].text) \in {"*", "/", "^"})
                    => parse_atom(ls, p) = Err(Invalid)
              /\ (p <= Len(ls) /\ IsToken(ls[p], "Id") /\ ~IsFnId(ls[p])
                        /\ ~is_const(Str(ls[p].text)))
                    => parse_atom(ls, p) = Err(Unrecognized)
    /\ (pc = "done" /\ lexed.ok) =>
          LET found == AtomScan(lexed.val, 1, TRUE) IN
          /\ found \in {Err(Invalid), Err(Unrecognized)} => result = found
          /\ found.ok => tree.ok
    /\ pc = "done" =>
        /\ text = <<"*", "3">> => result = Err(Invalid)
        /\ text = <<"2", "+", "/", "3">> => result = Err(Invalid)
        /\ text = <<"f", "o", "o", "(", "2", ")">> => result = Err(Unrecognized)
        /\ text = <<>> => result = Err(Unrecognized)
        /\ text = <<"(", ")">> => result = Err(Unrecognized)
        /\ text = <<"2", "+">> => result = Err(Unrecognized)
        /\ text = <<"s", "i", "n">> => result = Err(Unrecognized)

C6_Witness ==
    /\ pc = "done"
    /\ text = <<"2", "+", "/", "3">>
    /\ lexed.ok
    /\ AtomScan(lexed.val, 1, TRUE) = Err(Invalid)
    /\ result = Err(Invalid)

\* C7: evaluating a parsed tree never fails: an Err of evaluate is the
\* lexer's or the parser's (the numeric reader's included), and a division
\* by zero or a function out of its domain gives an Ok value: 1/0 is
\* infinity, 0/0 is NaN, -2/0 is -infinity, ln 0 is Ok.
C7_EvalNeverFails ==
    /\ pc = "eval" => eval(tree.val).ok
    /\ pc = "done" =>
        /\ tree.ok => result.ok
        /\ ~result.ok => \/ ~lexed.ok /\ result = lexed
                         \/ lexed.ok /\ ~tree.ok /\ result = tree
        /\ text = <<"1", "/", "0">> => result = Ok(Inf)
        /\ text = <<"0", "/", "0">> => result = Ok(NaN)
        /\ text = <<"-", "2", "/", "0">> => result = Ok(NegInf)
        /\ text = <<"l", "n", " ", "0">> => result.ok

C7_Witness ==
    /\ pc = "done"
    /\ text = <<"1", "/", "0">>
    /\ tree.val = BinOp(Lit(1), "Div", Lit(0))
    /\ result = Ok(Inf)

\* The binding powers a caller of parse_bp can ask for.
MinBps == 0..9

\* C8: an implicit multiplication is folded in whatever min_bp the caller
\* asked for: parse_bp started on a number that a number directly follows
\* reads the second too and multiplies, under every min_bp; so the product
\* ends up as the right operand of an explicit operator before it, however
\* tight:
\* 2^3 4 is 2^(3*4) = 4096, 6/2 3 is 6/(2*3) = 1, -3 2 is -(3*2).
C8_ImplicitMultiplicationIgnoresMinBp ==
    /\ (pc # "lex" /\ lexed.ok) =>
          \A p \in 1..(Len(lexed.val) - 1) :
              (IsToken(lexed.val[p], "Num") /\ IsToken(lexed.val[p + 1], "Num")) =>
                  \A m \in MinBps :
                      LET r == parse_bp(lexed.val, p, m) IN
                      /\ r.ok
                      /\ r.val.pos > p + 1
                      /\ Head(InOps(r.val.expr)) = "Mul"
    /\ pc = "done" =>
        /\ tree.ok
        /\ tree.val = RefTree(lexed.val)
        /\ text = <<"2", "^", "3", " ", "4">> =>
              /\ tree.val = BinOp(Lit(2), "Pow", BinOp(Lit(3), "Mul", Lit(4)))
              /\ result = Value(4096)
        /\ text = <<"6", "/", "2", " ", "3">> =>
              /\ tree.val = BinOp(Lit(6), "Div", BinOp(Lit(2), "Mul", Lit(3)))
              /\ result = Value(1)
        /\ text = <<"-", "3", " ", "2">> =>
              tree.val = UnOp(Neg, BinOp(Lit(3), "Mul", Lit(2)))

C8_Witness ==
    /\ pc = "done"
    /\ text = <<"2", "^", "3", " ", "4">>
    /\ tree.val = BinOp(Lit(2), "Pow", BinOp(Lit(3), "Mul", Lit(4)))
    /\ result = Value(4096)

\* The text with the ^ at position i written as **.
StarStar(t, i) == SubSeq(t, 1, i - 1) \o <<"*", "*">> \o SubSeq(t, i + 1, Len(t))

\* The positions of t whose ^ can be written ** and lex as one symbol **:
\* those no * stands before.
Carets(t) == {i \in 1..Len(t) : t[i] = "^" /\ (i = 1 \/ t[i - 1] # "*")}

\* C9: ** is an alias for ^: writing a ^ as ** leaves the outcome of
\* evaluate unchanged (the same value or the same error kind), where a
\* binary operator is due and where an atom is due alike.
C9_StarStarIsCaret ==
    pc = "done" => \A i \in Carets(text) : evaluate(StarStar(text, i)) = result

\* C9, where a binary operator is due: the ^ after an operand.
C9_StarStarIsCaretAfterOperand ==
    (pc = "done" /\ lexed.ok) =>
        \A i \in Carets(text) :
            LET before == lex_text(SubSeq(text, 1, i - 1)) IN
            (before.ok /\ AtomScan(before.val, 1, TRUE).ok)
                => evaluate(StarStar(text, i)) = result

\* Where an atom is due the two differ: ^3 is Invalid, **3 is Unrecognized.
C9_Witness ==
    /\ pc = "done"
    /\ text = <<"^", "3">>
    /\ result = Err(Invalid)
    /\ evaluate(StarStar(text, 1)) = Err(Unrecognized)

\* The groups still open at the end of t, from position i with d open.
RECURSIVE OpenAtEnd(_, _, _)
OpenAtEnd(t, i, d) ==
    IF i > Len(t) THEN d
    ELSE IF t[i] = "(" THEN OpenAtEnd(t, i + 1, d + 1)
    ELSE IF t[i] = ")" /\ d > 0 THEN OpenAtEnd(t, i + 1, d - 1)
    ELSE OpenAtEnd(t, i + 1, d)

RECURSIVE Closers(_)
Closers(n) == IF n = 0 THEN <<>> ELSE <<")">> \o Closers(n - 1)

\* The positions of t that hold a ) while no group is open.
StrayClosers(t) ==
    {i \in 1..Len(t) : t[i] = ")" /\ OpenAtEnd(SubSeq(t, 1, i - 1), 1, 0) = 0}

\* The positions of t that hold the top-level terminator while no group is
\* open.
TopLevelNuls(t) ==
    {i \in 1..Len(t) : t[i] = NUL /\ OpenAtEnd(SubSeq(t, 1, i - 1), 1, 0) = 0}

\* A text whose groups are not all closed lexes and evaluates as the text
\* with the missing ) appended.
UnclosedAsClosed ==
    (pc = "done" /\ OpenAtEnd(text, 1, 0) > 0) =>
        LET closed == text \o Closers(OpenAtEnd(text, 1, 0)) IN
        /\ lexed = lex_text(closed)
        /\ result = evaluate(closed)

UnclosedExamples ==
    pc = "done" =>
        /\ text = <<"(", "2", "+", "2">> => lexed.ok /\ result = Value(4)
        /\ text = <<"2", "*", "(", "(", "2">> => lexed.ok /\ result = Value(4)
        /\ text = <<")">> => result = Err(Unrecognized)
        /\ text = <<"2", ")", "(">> => result = Err(Unrecognized)

\* C10 as the claim has it: a text with unclosed groups behaves as the text
\* with the missing ) appended, and every text with a ) while no group is
\* open fails with Err(Unrecognized).
C10_StrayCloserAlwaysFails ==
    /\ UnclosedAsClosed
    /\ UnclosedExamples
    /\ (pc = "done" /\ StrayClosers(text) # {}) => result = Err(Unrecognized)

\* C10: a text with unclosed groups lexes without error where the closed
\* text does, and behaves as the text with the missing ) appended: (2+2 is
\* (2+2), 2*((2 is 2*((2)).  A text with a ) while no group is open fails
\* with Err(Unrecognized), unless the top-level terminator (the character
\* NUL) stands before that ) outside every group: lexing ends there.
C10_UnclosedGroupsCloseAtEnd ==
    /\ UnclosedAsClosed
    /\ UnclosedExamples
    /\ (pc = "done" /\ StrayClosers(text) # {}) =>
          \/ result = Err(Unrecognized)
          \/ \E n \in TopLevelNuls(text) : \A c \in StrayClosers(text) : n < c

C10_Witness ==
    /\ pc = "done"
    /\ text = <<"2", "*", "(", "(", "2">>
    /\ OpenAtEnd(text, 1, 0) = 2
    /\ lexed.ok
    /\ result = Value(4)

\* A text with a ) at top level behind the terminator: the ) is never read.
C10_StrayCloserBehindNul ==
    /\ pc = "done"
    /\ text = <<"2", NUL, ")">>
    /\ result = Value(2)

\* The '.' of t before position i.
DotsBefore(t, i) == Cardinality({j \in 1..(i - 1) : t[j] = "."})

\* t has a character other than a decimal digit or '.' before its second '.'.
BadBeforeSecondDot(t) ==
    \E i \in 1..Len(t) : t[i] \notin Digits \cup {"."} /\ DotsBefore(t, i) < 2

\* t up to its second '.', the '.' left out.
UpToSecondDot(t) ==
    LET second == {i \in 1..Len(t) : t[i] = "." /\ DotsBefore(t, i) = 1}
    IN  IF second = {} THEN t ELSE SubSeq(t, 1, MinOf(second) - 1)

\* The value of a sequence of decimal digits.
RECURSIVE DigitsValue(_)
DigitsValue(t) ==
    IF t = <<>> THEN 0
    ELSE 10 * DigitsValue(SubSeq(t, 1, Len(t) - 1)) + DigitVal(t[Len(t)])

\* C11: a numeric token (it starts with a numeric character or '.') reads as
\* Err(Invalid) exactly when a character other than a decimal digit or '.'
\* stands before its second '.'; otherwise it reads Ok, as the token cut at
\* its second '.' reads, and a token of digits alone reads as their decimal
\* value.  2pi and 1.2x are Invalid, 1.2.3 and 1.2.x are 1.2, a lone . is 0.
C11_NumericReader ==
    /\ (pc # "lex" /\ lexed.ok) =>
          \A p \in 1..Len(lexed.val) :
              IsToken(lexed.val[p], "Num") =>
                  LET t == lexed.val[p].text IN
                  /\ is_numeric(t[1]) \/ t[1] = "."
                  /\ BadBeforeSecondDot(t) <=> parse_num(t) = Err(Invalid)
                  /\ ~BadBeforeSecondDot(t) =>
                        /\ parse_num(t).ok
                        /\ parse_num(t) = parse_num(UpToSecondDot(t))
                  /\ (\A i \in 1..Len(t) : t[i] \in Digits) =>
                        parse_num(t) = Value(DigitsValue(t))
    /\ pc = "done" =>
        /\ text = <<"2", "p", "i">> => result = Err(Invalid)
        /\ text = <<"1", ".", "2", "x">> => result = Err(Invalid)
        /\ text = <<"1", Half>> => result = Err(Invalid)
        /\ text = <<"1", ".", "2">> => result = Ok(F("dec", 12, 1))
        /\ text = <<"1", ".", "2", ".", "3">> => result = Ok(F("dec", 12, 1))
        /\ text = <<"1", ".", "2", ".", "x">> => result = Ok(F("dec", 12, 1))
        /\ text = <<".">> => result = Value(0)

C11_Witness ==
    /\ pc = "done"
    /\ text = <<"1", ".", "2", ".", "x">>
    /\ Len(lexed.val) = 1
    /\ ~BadBeforeSecondDot(lexed.val[1].text)
    /\ result = Ok(F("dec", 12, 1))

\* The spellings bin_bp and the operator match of parse_bp handle for a
\* symbol token.
SixSpellings == {"+", "-", "*", "/", "^", "**"}

\* The spellings of the symbol tokens of ls, those inside its groups
\* included.
SymSpellings(ls) ==
    UNION {{Str(m[i].text) : i \in {j \in 1..Len(m) : IsSym(m[j])}} :
               m \in LexemeSeqs(ls)}

\* C12: the unreachable arms are never executed: every symbol token the
\* lexer emits is spelled + - * / ^ or **, bin_bp and the operator match of
\* parse_bp handle each of these, and neither the parse nor evaluate ends in
\* a panic, from whatever lexeme and with whatever min_bp parse_bp starts.
C12_UnreachableArmsNeverRun ==
    /\ \A op \in SixSpellings : bin_bp(op) # Unreachable /\ bin_op(op) # "unreachable"
    /\ (pc # "lex" /\ lexed.ok) =>
          /\ SymSpellings(lexed.val) \subseteq SixSpellings
          /\ \A p \in 1..Len(lexed.val) : \A m \in {TopBp, ArgBp, UnaryBp} :
                parse_bp(lexed.val, p, m) # Panic
    /\ tree # Panic
    /\ result # Panic

C12_Witness ==
    /\ pc = "done"
    /\ text = <<"2", "*", "*", "3">>
    /\ SymSpellings(lexed.val) = {"**"}
    /\ result = Value(8)

\* The step-by-step run gives what the operators give.
StepsAgree ==
    /\ pc # "lex" => lexed = lex_text(text)
    /\ (pc = "eval" \/ (pc = "done" /\ lexed.ok)) => tree = parse_lexed(lexed.val)
    /\ pc = "done" => result = evaluate(text)

\* An iteration of the lexer loop consumes a character or fails.
LexIterationConsumes ==
    lex_iteration => (lexing'.pos > lexing.pos \/ (pc' = "done" /\ ~lexed'.ok))

\* What is left for the lexer: the characters not yet read, and the calls
\* to return from.
LexMeasure == 2 * (Len(text) + 1 - lexing.pos) + Len(lexing.stack)

LexMeasureDecreases ==
    (lex_iteration \/ lex_loop_exit) => (LexMeasure' < LexMeasure \/ pc' = "done")

\* When the right operand of a loop iteration of parse_bp is returned, for
\* an explicit operator or an implicit multiplication, the iterator is past
\* where the iteration began.
ParseIterationConsumes ==
    (pc = "parse" /\ parsing.mode = "ret" /\ parsing.stack # <<>>
        /\ Top.k \in {"bin", "imp"}) => It.p > Top.at

\* parse_atom and parse_arg return with the iterator past where they were
\* called.
CalleesConsume ==
    (pc = "parse" /\ parsing.mode = "ret" /\ parsing.stack # <<>>
        /\ Top.k \in {"lhs", "fn", "un"}) => It.p > Top.at

\* C13: evaluate terminates on every text, with Ok or Err: every run reaches
\* its end; an iteration of the lexer loop consumes a character or fails; an
\* iteration of the parse_bp loop that does not leave the loop, explicit
\* operator and implicit multiplication alike, consumes a lexeme or fails;
\* and the run ends with the outcome of evaluate.
C13_EvaluateTerminates ==
    /\ <>(pc = "done" /\ (result.ok \/ result.err \in {Unrecognized, Invalid}))
    /\ [][LexIterationConsumes /\ LexMeasureDecreases]_vars
    /\ [](ParseIterationConsumes /\ CalleesConsume /\ StepsAgree)

C13_Witness ==
    /\ pc = "done"
    /\ text = <<"2", " ", "(", "2">>
    /\ lexing = [pos |-> 5, stack |-> <<>>]
    /\ parsing = NotParsing
    /\ result = Value(4)

\* The identifiers spelled in a lexeme sequence, at any depth.
IdSpellings(ls) ==
    UNION {{Str(m[i].text) : i \in {j \in 1..Len(m) : IsToken(m[j], "Id")}} :
               m \in LexemeSeqs(ls)}

\* The table identifiers of expr.rs that main.rs's parse_atom has no arm for.
HostMissing == {"log10", "sqrt", "cbrt", "abs"}

\* main.rs's parse against the tree this run built, its evaluate against
\* the run's result.
HostAgrees ==
    /\ main_evaluate(text) = result
    /\ main_parse(text) = (IF lexed.ok THEN tree ELSE lexed)

\* C14: the evaluate of main.rs and the evaluate of expr.rs agree on every
\* input: both fail with the same error or both succeed with the same tree
\* and the same value, for every identifier of the table and every constant.
C14_HostEvaluateAgrees == pc = "done" => HostAgrees

\* The two agree on every text that spells none of log10, sqrt, cbrt, abs.
C14_HostAgreesOffMissingNames ==
    (pc = "done" /\ lexed.ok /\ IdSpellings(lexed.val) \cap HostMissing = {})
        => HostAgrees

\* A text expr.rs evaluates and main.rs rejects.
C14_Witness ==
    /\ pc = "done"
    /\ text = <<"s", "q", "r", "t", " ", "2">>
    /\ result.ok
    /\ main_evaluate(text) = Err(Unrecognized)

=============================================================================
